---- MODULE Spec2Model ----
(***************************************************************************)
(* Model of index_workspace.py: one run of index(namespace, name,          *)
(* keeping_related_files, headers).  The run is a sequence of remote       *)
(* calls, each followed by the code that consumes its response; the pure   *)
(* path functions are operators over strings, which are modelled as        *)
(* sequences of one-character strings so that startswith, split, join and  *)
(* the substring test `in` are computed character by character.            *)
(***************************************************************************)
EXTENDS Integers, Sequences, FiniteSets, TLC

VARIABLES pc, exception, keeping_related_files, bucket_name, entity_types,
          datamodel_attributes, workspace_attributes, attributes_in_bucket,
          all_blobs_in_bucket, blobs_to_remove, printed, output, trace

vars == <<pc, exception, keeping_related_files, bucket_name, entity_types,
          datamodel_attributes, workspace_attributes, attributes_in_bucket,
          all_blobs_in_bucket, blobs_to_remove, printed, output, trace>>

(* ---------------------------- bounds ----------------------------------- *)

\* the most attribute values (data model cells plus annotations) of a run
MaxAttrs == 2
\* the most objects one bucket listing returns
MaxBlobs == 3

(* ------------------------ Python values -------------------------------- *)

\* a Python str, as its characters
Str(chars) == [t |-> "str", s |-> chars, n |-> 0]
\* a Python float holding the whole number n (a numeric cell of a table)
Float(n) == [t |-> "float", s |-> <<>>, n |-> n]

Digit(n) == <<"0", "1", "2", "3", "4", "5", "6", "7", "8", "9">>[n + 1]

\* str(blob): a str is itself, a float prints as "<n>.0"
PyStr(v) == IF v.t = "str" THEN v.s ELSE <<Digit(v.n), ".", "0">>

\* Python's None, and a value that is not None
None == [none |-> TRUE, val |-> <<>>]
Some(v) == [none |-> FALSE, val |-> v]

Range(seq) == {seq[i] : i \in 1..Len(seq)}

(* ------------------------ string functions ----------------------------- *)

\* s.startswith(prefix)
StartsWith(s, prefix) ==
    /\ Len(s) >= Len(prefix)
    /\ SubSeq(s, 1, Len(prefix)) = prefix

\* needle in haystack, for two strings
Contains(needle, haystack) ==
    \E i \in 0..(Len(haystack) - Len(needle)) :
        SubSeq(haystack, i + 1, i + Len(needle)) = needle

\* s.split(sep) for a one-character separator
RECURSIVE split(_, _)
split(s, sep) ==
    IF \A i \in 1..Len(s) : s[i] # sep
    THEN <<s>>
    ELSE LET i == CHOOSE k \in 1..Len(s) :
                      s[k] = sep /\ \A j \in 1..(k - 1) : s[j] # sep
         IN <<SubSeq(s, 1, i - 1)>> \o split(SubSeq(s, i + 1, Len(s)), sep)

\* sep.join(parts)
RECURSIVE join(_, _)
join(sep, parts) ==
    IF Len(parts) = 0 THEN <<>>
    ELSE IF Len(parts) = 1 THEN parts[1]
    ELSE parts[1] \o <<sep>> \o join(sep, Tail(parts))

\* the last two segments dropped instead of the last one
Parent_two_segments(handle) ==
    LET parts == split(handle, "/")
    IN join("/", SubSeq(parts, 1, Len(parts) - 2))

\* '/'.join(handle.split('/')[:-1])
Parent(handle) ==
    LET parts == split(handle, "/")
    IN join("/", SubSeq(parts, 1, Len(parts) - 1))

(* -------------------------- the inputs --------------------------------- *)

GS == <<"g", "s", ":", "/", "/">>

\* bucketName of the workspace descriptor: two buckets, the name of one a
\* prefix of the name of the other
BucketNames == {<<"b">>, <<"b", "b">>}

\* object names below a bucket, in the order gsutil lists them
ObjectNames == << <<"a">>,
                  <<"d", "/", "a">>,
                  <<"d", "/", "b">>,
                  <<"d", "/", "e", "/", "c">>,
                  <<"e", "/", "c">> >>

\* gs://<bucket>/<object>
Url(bucket, object) == Str(GS \o bucket \o <<"/">> \o object)

\* the cells a table of the data model or the annotation export may hold:
\* paths at the root and in a directory of bucket b, a path in bucket bb, a
\* bucket url without an object, free text and a number
AttributeValues ==
    { Url(<<"b">>, ObjectNames[1]),
      Url(<<"b">>, ObjectNames[2]),
      Url(<<"b", "b">>, ObjectNames[2]),
      Str(GS \o <<"b", "b">>),
      Str(<<"n", "a">>),
      Float(3) }

\* status codes a remote call may answer with
StatusCodes == {200, 201, 204, 403, 500}

\* the entity types a workspace may define: a leaf type and a grouping type
EntityTypeLists == { <<>>, <<"sample">>, <<"sample_set">>,
                     <<"sample", "sample_set">>, <<"sample_set", "sample">> }

\* a parsed table: its columns, each the sequence of its cells
Tables(budget) ==
    UNION { [1..ncols -> [1..nrows -> AttributeValues]] :
              <<ncols, nrows>> \in
                  { sh \in (1..(IF budget = 0 THEN 1 ELSE budget)) \X (0..budget) :
                        sh[1] * sh[2] <= budget } }

\* the body of a response: tab-separated text, a zip archive with one
\* tab-separated member, one line of error text, or nothing
Tsv(table) == [kind |-> "tsv", table |-> table]
Zip(table) == [kind |-> "zip", table |-> table]
ErrorText == [kind |-> "text", table |-> <<>>]
EmptyBody == [kind |-> "empty", table |-> <<>>]

(* ----------------------- functions of the code ------------------------- *)

SuccessCodes == {200, 201, 204}

\* only server errors count as failures
check_request_server_errors(response, failure_message) ==
    IF response.status_code >= 500
    THEN [message |-> failure_message,
          response_status_code |-> response.status_code]
    ELSE [message |-> "success!",
          response_status_code |-> response.status_code]

check_request(response, failure_message) ==
    IF response.status_code \notin SuccessCodes
    THEN [message |-> failure_message,
          response_status_code |-> response.status_code]
    ELSE [message |-> "success!",
          response_status_code |-> response.status_code]

\* pd.read_csv of the body: no text raises EmptyDataError, a single line is
\* a header without rows, bytes of an archive are no utf-8 text
format_request_to_tsv(content) ==
    IF content.kind = "tsv" THEN Some(content.table)
    ELSE IF content.kind = "text" THEN Some(<< <<>> >>)
    ELSE None

\* zipfile.ZipFile(...).read(<entity_type>_membership.tsv): anything but an
\* archive raises BadZipFile
get_entity_type_set_datamodel(content) ==
    IF content.kind = "zip" THEN Some(Tsv(content.table)) ELSE None

RECURSIVE list_datamodel_columns(_)
list_datamodel_columns(dataframe) ==
    IF Len(dataframe) = 0 THEN <<>>
    ELSE dataframe[1] \o list_datamodel_columns(Tail(dataframe))

\* df.loc[0, :].tolist() when the table has a row, [] otherwise
first_row(dataframe) ==
    IF Len(dataframe[1]) # 0
    THEN [c \in 1..Len(dataframe) |-> dataframe[c][1]]
    ELSE <<>>

subset_attributes_in_bucket(bucket, entities_list, workspace_list) ==
    LET bucket_id == GS \o bucket
        combined_list == entities_list \o workspace_list
    IN SelectSeq(combined_list, LAMBDA blob : StartsWith(PyStr(blob), bucket_id))

\* the handles themselves, their last segment not stripped
list_paths_not_stripped(list_of_paths) ==
    {list_of_paths[i].s : i \in 1..Len(list_of_paths)}

\* the distinct parents; a Python set has no order, so a set here
list_paths(list_of_paths) ==
    {Parent(list_of_paths[i].s) : i \in 1..Len(list_of_paths)}

\* the containment test reversed: handle in path
subset_blobs_for_attribute_paths_reversed(paths, all_blobs) ==
    UNION { {all_blobs[i] : i \in {k \in 1..Len(all_blobs) :
                                      Contains(all_blobs[k].s, path)}} :
            path \in paths }

\* only the handles directly in one of the paths, none nested below
subset_blobs_for_attribute_paths_same_directory(paths, all_blobs) ==
    UNION { {all_blobs[i] : i \in {k \in 1..Len(all_blobs) :
                                      Parent(all_blobs[k].s) = path}} :
            path \in paths }

\* the handles of all_blobs that contain one of the paths; only the set of
\* the returned list is ever used
subset_blobs_for_attribute_paths(paths, all_blobs) ==
    UNION { {all_blobs[i] : i \in {k \in 1..Len(all_blobs) :
                                      Contains(path, all_blobs[k].s)}} :
            path \in paths }

\* the operands of the default-mode difference swapped
compute_blobs_to_remove_swapped(keeping, all_blobs, attributes) ==
    IF keeping
    THEN LET attribute_paths == list_paths(attributes)
             attribute_blobs == subset_blobs_for_attribute_paths(attribute_paths, all_blobs)
         IN Range(all_blobs) \ attribute_blobs
    ELSE Range(attributes) \ Range(all_blobs)

\* lines 181-186 of index: the set written to the report
compute_blobs_to_remove(keeping, all_blobs, attributes) ==
    IF keeping
    THEN LET attribute_paths == list_paths(attributes)
             attribute_blobs == subset_blobs_for_attribute_paths(attribute_paths, all_blobs)
         IN Range(all_blobs) \ attribute_blobs
    ELSE Range(all_blobs) \ Range(attributes)

\* gsutil ls gs://<bucket>/** for the objects present
Listing(bucket, present) ==
    LET names == SelectSeq(ObjectNames, LAMBDA o : o \in present)
    IN [i \in 1..Len(names) |-> Url(bucket, names[i])]

(* ------------------------------ the run -------------------------------- *)

\* one entry of the history of the run: a remote call or a step of index,
\* with the status code when the call answered with a non-success status
Event(call, status) ==
    [call |-> call, failed |-> IF status \in SuccessCodes THEN 0 ELSE status]
Step(call) == [call |-> call, failed |-> 0]

NoOutput == [written |-> FALSE, lines |-> {}]

Init ==
    /\ pc = "get_workspace"
    /\ exception = ""
    /\ keeping_related_files \in BOOLEAN
    /\ bucket_name = <<>>
    /\ entity_types = Some(<<>>)
    /\ datamodel_attributes = <<>>
    /\ workspace_attributes = Some(<<>>)
    /\ attributes_in_bucket = <<>>
    /\ all_blobs_in_bucket = <<>>
    /\ blobs_to_remove = {}
    /\ printed = <<>>
    /\ output = NoOutput
    /\ trace = <<>>

\* lines 145-151: the workspace descriptor and its bucketName
GetWorkspace ==
    /\ pc = "get_workspace"
    /\ \E status \in StatusCodes, bucket \in BucketNames :
          LET request_workspace == [status_code |-> status]
              check_r == check_request(request_workspace, "Failed to get workspace")
          IN /\ trace' = Append(trace, Event("get_workspace", status))
             /\ IF check_r.message # "success!"
                THEN /\ printed' = Append(printed, check_r)
                     /\ pc' = "returned"
                     /\ UNCHANGED bucket_name
                ELSE /\ bucket_name' = bucket
                     /\ pc' = "get_bucket_usage"
                     /\ UNCHANGED printed
    /\ UNCHANGED <<exception, keeping_related_files, entity_types, datamodel_attributes,
                   workspace_attributes, attributes_in_bucket, all_blobs_in_bucket,
                   blobs_to_remove, output>>

\* lines 152-162: the bucket usage, printed and not kept
GetBucketUsage ==
    /\ pc = "get_bucket_usage"
    /\ \E status \in StatusCodes :
          LET request_usage == [status_code |-> status]
              check_r == check_request(request_usage, "Failed to get workspace bucket usage")
          IN /\ trace' = Append(trace, Event("get_bucket_usage", status))
             /\ IF check_r.message # "success!"
                THEN /\ printed' = Append(printed, check_r)
                     /\ pc' = "returned"
                ELSE /\ pc' = "list_entity_types"
                     /\ UNCHANGED printed
    /\ UNCHANGED <<exception, keeping_related_files, bucket_name, entity_types,
                   datamodel_attributes, workspace_attributes, attributes_in_bucket,
                   all_blobs_in_bucket, blobs_to_remove, output>>

\* line 165 and lines 97-103: on failure list_entity_types prints the record
\* and returns what print_json returns, None
ListEntityTypes ==
    /\ pc = "list_entity_types"
    /\ \E status \in StatusCodes, types \in EntityTypeLists :
          LET r == [status_code |-> status]
              check_r == check_request(r, "Failed to get entity types from workspace")
          IN /\ trace' = Append(trace, Event("get_entity_types", status))
             /\ IF check_r.message # "success!"
                THEN /\ printed' = Append(printed, check_r)
                     /\ entity_types' = None
                ELSE /\ entity_types' = Some(types)
                     /\ UNCHANGED printed
    /\ pc' = "entity_loop"
    /\ UNCHANGED <<exception, keeping_related_files, bucket_name, datamodel_attributes,
                   workspace_attributes, attributes_in_bucket, all_blobs_in_bucket,
                   blobs_to_remove, output>>

\* line 167 when entity_types is None: iterating None raises TypeError
IterateNone ==
    /\ pc = "entity_loop"
    /\ entity_types.none
    /\ exception' = "TypeError"
    /\ pc' = "raised"
    /\ UNCHANGED <<keeping_related_files, bucket_name, entity_types, datamodel_attributes,
                   workspace_attributes, attributes_in_bucket, all_blobs_in_bucket,
                   blobs_to_remove, printed, output, trace>>

\* the bodies the table of an entity type may come with: the table (zipped
\* for a grouping type) with a success status, error text or nothing otherwise
EntityBodies(entity_type, status, budget) ==
    IF status \in SuccessCodes
    THEN IF entity_type = "sample_set"
         THEN {Zip(t) : t \in Tables(budget)}
         ELSE {Tsv(t) : t \in Tables(budget)}
    ELSE {ErrorText, EmptyBody}

\* lines 167-175, one iteration: the status of the response is not looked at
FetchEntityType ==
    /\ pc = "entity_loop"
    /\ ~entity_types.none
    /\ entity_types.val # <<>>
    /\ LET entity_type == Head(entity_types.val) IN
       \E status \in StatusCodes :
       \E content \in EntityBodies(entity_type, status,
                                   MaxAttrs - Len(datamodel_attributes)) :
          LET entity_tsv ==
                  IF (entity_type = "sample_set") \/ (entity_type = "pair_set")
                         \/ (entity_type = "participant_set")
                  THEN get_entity_type_set_datamodel(content)
                  ELSE Some(content)
              entity_dataframe ==
                  IF entity_tsv.none THEN None ELSE format_request_to_tsv(entity_tsv.val)
          IN /\ trace' = Append(trace, Event("get_entity_type_datamodel", status))
             /\ IF entity_tsv.none
                THEN /\ exception' = "BadZipFile"
                     /\ pc' = "raised"
                     /\ UNCHANGED <<datamodel_attributes, entity_types>>
                ELSE IF entity_dataframe.none
                THEN /\ exception' = "EmptyDataError"
                     /\ pc' = "raised"
                     /\ UNCHANGED <<datamodel_attributes, entity_types>>
                ELSE /\ datamodel_attributes' =
                            datamodel_attributes \o list_datamodel_columns(entity_dataframe.val)
                     /\ entity_types' = Some(Tail(entity_types.val))
                     /\ UNCHANGED <<exception, pc>>
    /\ UNCHANGED <<keeping_related_files, bucket_name, workspace_attributes,
                   attributes_in_bucket, all_blobs_in_bucket, blobs_to_remove,
                   printed, output>>

\* the loop of line 167 is exhausted
EntityLoopEnds ==
    /\ pc = "entity_loop"
    /\ ~entity_types.none
    /\ entity_types.val = <<>>
    /\ pc' = "list_workspace_attributes"
    /\ UNCHANGED <<exception, keeping_related_files, bucket_name, entity_types,
                   datamodel_attributes, workspace_attributes, attributes_in_bucket,
                   all_blobs_in_bucket, blobs_to_remove, printed, output, trace>>

\* the annotation export: a header and at most one row
AnnotationTables(budget) ==
    {t \in Tables(budget) : Len(t[1]) <= 1}

\* line 177 and lines 106-116
ListWorkspaceAttributes ==
    /\ pc = "list_workspace_attributes"
    /\ \E status \in StatusCodes :
       \E table \in AnnotationTables(MaxAttrs - Len(datamodel_attributes)) :
          LET r == [status_code |-> status]
              check_r == check_request(r, "Failed to get workspace annotations")
              df == format_request_to_tsv(Tsv(table))
          IN /\ trace' = Append(trace, Event("get_workspace_attributes", status))
             /\ IF check_r.message # "success!"
                THEN /\ printed' = Append(printed, check_r)
                     /\ workspace_attributes' = None
                ELSE /\ workspace_attributes' = Some(first_row(df.val))
                     /\ UNCHANGED printed
    /\ pc' = "subset_attributes"
    /\ UNCHANGED <<exception, keeping_related_files, bucket_name, entity_types,
                   datamodel_attributes, attributes_in_bucket, all_blobs_in_bucket,
                   blobs_to_remove, output>>

\* line 178: entities_list + None raises TypeError
SubsetAttributes ==
    /\ pc = "subset_attributes"
    /\ IF workspace_attributes.none
       THEN /\ exception' = "TypeError"
            /\ pc' = "raised"
            /\ UNCHANGED <<attributes_in_bucket, trace>>
       ELSE /\ attributes_in_bucket' =
                   subset_attributes_in_bucket(bucket_name, datamodel_attributes,
                                               workspace_attributes.val)
            /\ trace' = Append(trace, Step("subset_attributes_in_bucket"))
            /\ pc' = "glob_bucket"
            /\ UNCHANGED exception
    /\ UNCHANGED <<keeping_related_files, bucket_name, entity_types, datamodel_attributes,
                   workspace_attributes, all_blobs_in_bucket, blobs_to_remove,
                   printed, output>>

\* line 180 and lines 78-82: gsutil fails (as it does when nothing matches)
\* and check_output raises, or the listing comes back
GlobBucket ==
    /\ pc = "glob_bucket"
    /\ trace' = Append(trace, Step("glob_bucket"))
    /\ \E present \in SUBSET Range(ObjectNames) :
          /\ Cardinality(present) <= MaxBlobs
          /\ IF present = {}
             THEN /\ exception' = "CalledProcessError"
                  /\ pc' = "raised"
                  /\ UNCHANGED all_blobs_in_bucket
             ELSE /\ all_blobs_in_bucket' = Listing(bucket_name, present)
                  /\ pc' = "report"
                  /\ UNCHANGED exception
    /\ UNCHANGED <<keeping_related_files, bucket_name, entity_types, datamodel_attributes,
                   workspace_attributes, attributes_in_bucket, blobs_to_remove,
                   printed, output>>

\* the bucket listed a second time in the keep-related branch
Report_listing_again ==
    /\ pc = "report"
    /\ blobs_to_remove' = compute_blobs_to_remove(keeping_related_files,
                                                  all_blobs_in_bucket, attributes_in_bucket)
    /\ output' = [written |-> TRUE, lines |-> {PyStr(b) : b \in blobs_to_remove'}]
    /\ trace' = IF keeping_related_files
                THEN trace \o <<Step("glob_bucket"), Step("to_csv")>>
                ELSE Append(trace, Step("to_csv"))
    /\ pc' = "done"
    /\ UNCHANGED <<exception, keeping_related_files, bucket_name, entity_types,
                   datamodel_attributes, workspace_attributes, attributes_in_bucket,
                   all_blobs_in_bucket, printed>>

\* lines 181-193: the candidates, and the report file with one line for each
Report ==
    /\ pc = "report"
    /\ blobs_to_remove' = compute_blobs_to_remove(keeping_related_files,
                                                  all_blobs_in_bucket, attributes_in_bucket)
    /\ output' = [written |-> TRUE, lines |-> {PyStr(b) : b \in blobs_to_remove'}]
    /\ trace' = Append(trace, Step("to_csv"))
    /\ pc' = "done"
    /\ UNCHANGED <<exception, keeping_related_files, bucket_name, entity_types,
                   datamodel_attributes, workspace_attributes, attributes_in_bucket,
                   all_blobs_in_bucket, printed>>

Next ==
    \/ GetWorkspace
    \/ GetBucketUsage
    \/ ListEntityTypes
    \/ IterateNone
    \/ FetchEntityType
    \/ EntityLoopEnds
    \/ ListWorkspaceAttributes
    \/ SubsetAttributes
    \/ GlobBucket
    \/ Report

Spec == Init /\ [][Next]_vars

TypeOK ==
    /\ pc \in {"get_workspace", "get_bucket_usage", "list_entity_types", "entity_loop",
               "list_workspace_attributes", "subset_attributes", "glob_bucket",
               "report", "done", "returned", "raised"}
    /\ Len(datamodel_attributes) <= MaxAttrs
    /\ Len(all_blobs_in_bucket) <= MaxBlobs

(* ----------------------- vocabulary of the claims ---------------------- *)

\* the string form of v starts with gs://<bucket>/
InBucket(v, bucket) == StartsWith(PyStr(v), GS \o bucket \o <<"/">>)

\* the directory of a path: everything before its last slash
Dirname(chars) ==
    LET slashes == {i \in 1..Len(chars) : chars[i] = "/"}
    IN IF slashes = {} THEN <<>>
       ELSE SubSeq(chars, 1, (CHOOSE i \in slashes : \A j \in slashes : j <= i) - 1)

\* directory d is e or a directory nested below e
SameOrBelow(d, e) == d = e \/ StartsWith(d, e \o <<"/">>)

\* v names an object directly at the root of the bucket
AtBucketRoot(v, bucket) ==
    /\ v.t = "str"
    /\ InBucket(v, bucket)
    /\ Dirname(v.s) = GS \o bucket

RemoveAt(seq, i) == SubSeq(seq, 1, i - 1) \o SubSeq(seq, i + 1, Len(seq))

\* the candidates index computes from the two attribute lists and a listing
Candidates(keeping, bucket, entities_list, workspace_list, all_blobs) ==
    compute_blobs_to_remove(keeping, all_blobs,
                            subset_attributes_in_bucket(bucket, entities_list, workspace_list))

Calls(name) == {i \in 1..Len(trace) : trace[i].call = name}
FailedCalls == {i \in 1..Len(trace) : trace[i].failed # 0}
ListedPaths == {PyStr(b) : b \in Range(all_blobs_in_bucket)}

(* ------------------------------ claims --------------------------------- *)

\* C1: whenever one of the five kinds of fetch has answered with a
\* non-success status, a diagnostic record with that status has been printed
\* and no report file is written.
C1_FailedFetchPrintsAndWritesNothing ==
    \A i \in FailedCalls :
        /\ \E j \in 1..Len(printed) : printed[j].response_status_code = trace[i].failed
        /\ ~output.written

\* C2: in both modes the lines of the written report are a subset of the
\* paths the bucket listing returned.
C2_CandidatesWithinListing ==
    output.written => output.lines \subseteq ListedPaths

C2_Witness ==
    /\ pc = "done"
    /\ output.lines # {}
    /\ output.lines # ListedPaths
    /\ attributes_in_bucket # <<>>

\* C3: the candidates of a keep-related run are a subset of the candidates
\* default mode computes from the same listing and the same attributes.
C3_KeepRelatedWithinDefault ==
    (pc = "done" /\ keeping_related_files) =>
        blobs_to_remove \subseteq
            compute_blobs_to_remove(FALSE, all_blobs_in_bucket, attributes_in_bucket)

C3_Witness ==
    /\ pc = "done"
    /\ keeping_related_files
    /\ blobs_to_remove # {}
    /\ Range(attributes_in_bucket) \cap Range(all_blobs_in_bucket) # {}
    /\ blobs_to_remove #
           compute_blobs_to_remove(FALSE, all_blobs_in_bucket, attributes_in_bucket)

\* C4: after the filtering, attributes_in_bucket is exactly the elements of
\* entities followed by workspace whose string form starts with gs://B/,
\* trailing slash included.
C4_FilterIsSlashPrefix ==
    pc \in {"glob_bucket", "report", "done"} =>
        attributes_in_bucket =
            SelectSeq(datamodel_attributes \o workspace_attributes.val,
                      LAMBDA v : InBucket(v, bucket_name))

\* C5: once the workspace fetch or the usage fetch has answered with a
\* non-success status, a diagnostic with that status code is printed, that
\* call is the last one of the run and no report file is written.
C5_EarlyFailureStopsTheRun ==
    \A i \in FailedCalls :
        trace[i].call \in {"get_workspace", "get_bucket_usage"} =>
            /\ \E j \in 1..Len(printed) :
                   printed[j].response_status_code = trace[i].failed
            /\ i = Len(trace)
            /\ pc = "returned"
            /\ ~output.written

C5_Witness ==
    /\ pc = "returned"
    /\ Len(trace) = 2
    /\ trace[2] = [call |-> "get_bucket_usage", failed |-> 403]
    /\ Len(printed) = 1
    /\ printed[1].response_status_code = 403

\* C6: an attribute value that is no path inside this bucket changes nothing:
\* the candidates equal those computed from the lists without that value.
C6_ForeignValueSuppressesNothing ==
    pc = "done" =>
        /\ \A i \in 1..Len(datamodel_attributes) :
               ~InBucket(datamodel_attributes[i], bucket_name) =>
                   blobs_to_remove =
                       Candidates(keeping_related_files, bucket_name,
                                  RemoveAt(datamodel_attributes, i),
                                  workspace_attributes.val, all_blobs_in_bucket)
        /\ \A i \in 1..Len(workspace_attributes.val) :
               ~InBucket(workspace_attributes.val[i], bucket_name) =>
                   blobs_to_remove =
                       Candidates(keeping_related_files, bucket_name,
                                  datamodel_attributes,
                                  RemoveAt(workspace_attributes.val, i),
                                  all_blobs_in_bucket)

\* the bucket holds exactly the three paths A, B, C, the data model
\* references only A and there are no annotations
C7_Scenario(A, B, C) ==
    /\ pc = "done"
    /\ Range(all_blobs_in_bucket) = {A, B, C}
    /\ Cardinality({A, B, C}) = 3
    /\ Range(datamodel_attributes) = {A}
    /\ workspace_attributes.val = <<>>

\* C7 as stated: default mode yields {B, C}; keep-related mode yields {C}
\* whenever A and B have the same parent directory and C another one.
C7_EndToEndAnyOtherDirectory ==
    \A A, B, C \in Range(all_blobs_in_bucket) :
        C7_Scenario(A, B, C) =>
            /\ ~keeping_related_files => blobs_to_remove = {B, C}
            /\ (/\ keeping_related_files
                /\ Dirname(A.s) = Dirname(B.s)
                /\ Dirname(C.s) # Dirname(A.s)) => blobs_to_remove = {C}

\* C7 amended: default mode yields {B, C}; keep-related mode yields {C}
\* whenever A and B have the same parent directory and the path of C does
\* not contain that directory as a substring.
C7_EndToEnd ==
    \A A, B, C \in Range(all_blobs_in_bucket) :
        C7_Scenario(A, B, C) =>
            /\ ~keeping_related_files => blobs_to_remove = {B, C}
            /\ (/\ keeping_related_files
                /\ Dirname(A.s) = Dirname(B.s)
                /\ ~Contains(Dirname(A.s), C.s)) => blobs_to_remove = {C}

C7_Witness ==
    \E A, B, C \in Range(all_blobs_in_bucket) :
        /\ C7_Scenario(A, B, C)
        /\ keeping_related_files
        /\ Dirname(A.s) = Dirname(B.s)
        /\ Dirname(C.s) # Dirname(A.s)
        /\ blobs_to_remove = {C}
        /\ output.lines = {C.s}

\* C8: glob_bucket is invoked at most once in a run; a run that writes the
\* report invokes it exactly once, after the annotation fetch and the
\* filtering of the attributes and before the report is written.
C8_OneListing ==
    /\ Cardinality(Calls("glob_bucket")) <= 1
    /\ output.written =>
           \E g \in Calls("glob_bucket") :
               /\ Calls("glob_bucket") = {g}
               /\ \A i \in Calls("get_workspace_attributes")
                           \cup Calls("subset_attributes_in_bucket") : i < g
               /\ Calls("get_workspace_attributes") # {}
               /\ Calls("subset_attributes_in_bucket") # {}
               /\ \A w \in Calls("to_csv") : g < w
               /\ Calls("to_csv") # {}

C8_Witness ==
    /\ pc = "done"
    /\ output.written
    /\ Cardinality(Calls("get_entity_type_datamodel")) = 2

\* C9: in keep-related mode no listed path whose directory is the parent
\* directory of an in-bucket attribute value, or nested below it, is a
\* candidate, whether or not the value itself is listed.
C9_RelatedFilesKept ==
    (pc = "done" /\ keeping_related_files) =>
        \A f \in Range(attributes_in_bucket) :
            InBucket(f, bucket_name) =>
                \A p \in Range(all_blobs_in_bucket) :
                    SameOrBelow(Dirname(p.s), Dirname(f.s)) =>
                        /\ p \notin blobs_to_remove
                        /\ p.s \notin output.lines

C9_Witness ==
    /\ pc = "done"
    /\ keeping_related_files
    /\ blobs_to_remove # {}
    /\ \E f \in Range(attributes_in_bucket) :
           /\ InBucket(f, bucket_name)
           /\ f \notin Range(all_blobs_in_bucket)
           /\ \E p, q \in Range(all_blobs_in_bucket) :
                  /\ Dirname(p.s) = Dirname(f.s)
                  /\ Dirname(q.s) # Dirname(f.s)
                  /\ SameOrBelow(Dirname(q.s), Dirname(f.s))

\* C10: in keep-related mode, when an in-bucket attribute value lies directly
\* at the bucket root, every listed path contains gs://<bucket> and there is
\* no candidate at all.
C10_RootAttributeKeepsAll ==
    (/\ pc = "done"
     /\ keeping_related_files
     /\ \E f \in Range(attributes_in_bucket) : AtBucketRoot(f, bucket_name)) =>
        /\ \A p \in Range(all_blobs_in_bucket) : Contains(GS \o bucket_name, p.s)
        /\ blobs_to_remove = {}
        /\ output.lines = {}

C10_Witness ==
    /\ pc = "done"
    /\ keeping_related_files
    /\ \E f \in Range(attributes_in_bucket) :
           /\ AtBucketRoot(f, bucket_name)
           /\ f \notin Range(all_blobs_in_bucket)
    /\ \E p \in Range(all_blobs_in_bucket) : Dirname(p.s) # GS \o bucket_name
    /\ Len(all_blobs_in_bucket) >= 2
    /\ blobs_to_remove = {}

====
